---- MODULE Spec2Model ----
(***************************************************************************)
(* The campaign execution engine of server/services/knowledgeRetrieval.ts  *)
(* (class CampaignExecutionEngine) with the call placement of              *)
(* server/services/voipOrchestrator.ts (VoIPController.makeCall) and the   *)
(* end-call route of server/routes.ts, for one campaign and its leads.     *)
(*                                                                         *)
(* Every async handler is a process.  One step of a process is the         *)
(* completion of the store operation it awaits (the operation takes effect *)
(* then) together with the synchronous code that follows it up to the next *)
(* await.  Processes interleave freely at their awaits, as the callbacks   *)
(* of a single-threaded event loop do.  A store operation whose result     *)
(* decides nothing (the existence check of getCampaign, logActivity, the   *)
(* VoIP log) is taken in the step of the operation next to it.             *)
(*                                                                         *)
(* Invocations are numbered in the order they begin (the next start takes  *)
(* the lowest unused id, the next tick the lowest idle slot).              *)
(*                                                                         *)
(* The Store's campaign, lead and call queries (getCampaign,               *)
(* updateCampaign, getCampaignLeads, getCampaignLeadsByStatus,             *)
(* getActiveCampaignCalls, getCall, updateCampaignLead) are called by the  *)
(* engine but are not part of server/storage.ts; they are modelled from    *)
(* the design document (plain reads and writes of the stored records).     *)
(***************************************************************************)
EXTENDS Integers, Sequences, FiniteSets, TLC

\* ------------------------------------------------------------------ bounds
NumLeads == 2
MaxStarts == 2
MaxTicks == 2
MaxPauses == 1
MaxCalls == 2
MaxTime == 2

\* ------------------------------------------------------- program constants
MinutesPerHour == 60
HoursPerDay == 24
DaysPerWeek == 7

MinutesPerDay == HoursPerDay * MinutesPerHour

StartIds == 1..MaxStarts
TickIds == 1..MaxTicks
CampaignId == "c1"
NoTimer == 0
NoLead == 0
NoTime == -1

WebhookStatuses == {"answered", "busy", "no-answer", "completed", "failed"}
SupportedProviders == {"twilio", "voip.ms"}
ProviderInputs == {"twilio"}

VARIABLES
    settings,           \* campaign.settings as stored, or NoSettings
    campaign,           \* the stored Campaign record
    leads,              \* the stored CampaignLead records, by creation order
    calls,              \* the stored Call records, by creation order
    activity,           \* the activity log: number of records per type
    runningCampaigns,   \* CampaignExecutionEngine.runningCampaigns
    campaignIntervals,  \* CampaignExecutionEngine.campaignIntervals[campaign]
    timers,             \* the setInterval timers that are not cleared
    adapters,           \* VoIPController.adapters (its keys)
    now,                \* the wall clock, minutes since Sunday 00:00 (it stands
                        \* still in the specifications below)
    starts,             \* the startCampaign invocations
    pause,              \* the pauseCampaign invocation
    ticks,              \* the tick callbacks in progress
    webhooks            \* history of the observed events (the webhooks
                        \* handled, the ticks fired outside the working
                        \* hours); the program keeps none

vars == <<settings, campaign, leads, calls, activity, runningCampaigns,
          campaignIntervals, timers, adapters, now, starts, pause, ticks, webhooks>>

Leads == 1..campaign.totalLeads

storeVars == <<settings, campaign, leads, calls, activity>>
engineVars == <<runningCampaigns, campaignIntervals, timers>>

\* ----------------------------------------------------------------- settings
NoSettings == [none |-> TRUE]

\* Monday 16:59, inside the working hours below.
InitialNow == 1 * MinutesPerDay + 16 * MinutesPerHour + 59

WorkingHours == [start |-> <<9, 0>>, end |-> <<17, 0>>, daysOfWeek |-> {1, 2, 3, 4, 5}]

MkSettings(maxc, retry, delay) ==
    [maxConcurrentCalls |-> maxc, retryAttempts |-> retry, retryDelay |-> delay,
     workingHours |-> WorkingHours, voipProvider |-> "twilio"]

\* One call at a time, one attempt per lead, no retry delay.
DefaultSettings == MkSettings(1, 1, 0)

\* ------------------------------------------------------------ pure helpers
\* Array.prototype.slice(0, end)
Slice(s, end) ==
    LET n == Len(s)
        e == IF end < 0 THEN (IF n + end < 0 THEN 0 ELSE n + end)
             ELSE IF end > n THEN n ELSE end
    IN  SubSeq(s, 1, e)

isWithinWorkingHours(workingHours, t) ==
    LET dayOfWeek == (t \div MinutesPerDay) % DaysPerWeek
        currentTime == t % MinutesPerDay
        startTime == workingHours.start[1] * MinutesPerHour + workingHours.start[2]
        endTime == workingHours.end[1] * MinutesPerHour + workingHours.end[2]
    IN  /\ dayOfWeek \in workingHours.daysOfWeek
        /\ currentTime >= startTime
        /\ currentTime <= endTime

IsTerminalLead(l) == l.status = "contacted" \/ l.status = "failed"

\* storage.getCampaignLeadsByStatus(campaignId, 'pending'): the rows, in
\* creation order.
getCampaignLeadsByStatus(st) ==
    LET ids == SelectSeq([i \in Leads |-> i], LAMBDA i : leads[i].status = st)
    IN  [j \in 1..Len(ids) |->
            [id |-> ids[j], callAttempts |-> leads[ids[j]].callAttempts,
             lastCallAt |-> leads[ids[j]].lastCallAt]]

\* storage.getActiveCampaignCalls(campaignId): the campaign's calls that are
\* queued or active.
getActiveCampaignCalls ==
    {k \in 1..Len(calls) : calls[k].status \in {"queued", "active"}}

\* makeCall, had it stored the lead id where handleCallWebhook reads it.
makeCallMetadata_TopLevel(provider, leadId) ==
    [provider |-> provider, leadId |-> leadId, settings |-> [leadId |-> leadId]]

\* The metadata VoIPController.makeCall stores with the Call record: the
\* dispatcher's context (leadId, campaignId) goes under metadata.settings.
makeCallMetadata(provider, leadId) ==
    [provider |-> provider, leadId |-> NoLead, settings |-> [leadId |-> leadId]]

\* ------------------------------------------------------------------- Init
IdleStart == [pc |-> "idle", result |-> "none", atCall |-> "none", pcl |-> FALSE]
\* due and dialed are history, kept from the selection to the end of the
\* loop: the leads that are eligible and fit the capacity at the selection,
\* and the leads makeCall was called for.
\* availableSlots is the callback's local of that name, kept for the same
\* time.
IdleTick == [pc |-> "idle", todo |-> <<>>, cur |-> NoLead, curAttempts |-> 0,
             nDone |-> 0, nGood |-> 0, availableSlots |-> 0,
             due |-> <<>>, dialed |-> <<>>]
IdlePause == [pc |-> "idle", n |-> 0]

\* The status of a campaign that storage.createCampaign stores when it is
\* given none (createCampaign passes none).
DefaultCampaignStatus == "draft"

\* The state after createCampaign stored a campaign of n leads with settings
\* of S and a scheduledAt of D, before it is started, with the providers of A
\* initialized, at a time of T.
InitAt(S, n, A, T, D) ==
    /\ settings \in S
    /\ \E d \in D :
         campaign = [status |-> DefaultCampaignStatus, scheduledAt |-> d,
                     startedAt |-> NoTime, completedAt |-> NoTime,
                     totalLeads |-> n, completedLeads |-> 0, successfulCalls |-> 0]
    /\ leads = [i \in 1..n |-> [status |-> "pending", callAttempts |-> 0,
                                lastCallAt |-> NoTime]]
    /\ calls = <<>>
    /\ activity = [campaign_started |-> 0, campaign_paused |-> 0, campaign_completed |-> 0]
    /\ runningCampaigns = {}
    /\ campaignIntervals = NoTimer
    /\ timers = {}
    /\ adapters = A
    /\ now \in T
    /\ starts = [s \in StartIds |-> IdleStart]
    /\ pause = IdlePause
    /\ ticks = [k \in TickIds |-> IdleTick]
    /\ webhooks = {}

\* The same, now (Monday 16:59) and with no scheduledAt.
InitWith(S, n, A) == InitAt(S, n, A, {InitialNow}, {NoTime})

Init == InitWith({DefaultSettings}, NumLeads, {})

\* ------------------------------------------------------------ environment
\* VoIPController.initializeProvider
initializeProvider(p) ==
    /\ p \in SupportedProviders
    /\ p \notin adapters
    /\ adapters' = adapters \cup {p}
    /\ UNCHANGED <<webhooks, storeVars, engineVars, now, starts, pause, ticks>>

\* ---------------------------------------------------------- startCampaign
\* The status guard, had it only rejected a running campaign.
CanStartFrom_NotRunning(status) == status # "running"

\* The status guard of startCampaign.
CanStartFrom(status) == status = "draft" \/ status = "scheduled"

\* The call: the runningCampaigns guard, then await storage.getCampaign.
\* atCall keeps the campaign's status at the time of the call (history).
StartEntered(st) ==
    IF CampaignId \in runningCampaigns
    THEN [st EXCEPT !.pc = "done", !.result = "error", !.atCall = campaign.status]
    ELSE [st EXCEPT !.pc = "getCampaign", !.atCall = campaign.status]

StartCall(s) ==
    /\ starts[s].pc = "idle"
    /\ \A r \in StartIds : r < s => starts[r].pc # "idle"
    /\ starts' = [starts EXCEPT ![s] = StartEntered(@)]
    /\ UNCHANGED <<webhooks, storeVars, engineVars, adapters, now, pause, ticks>>

\* ---------------------------------------------------------- createCampaign
\* The test of createCampaign for an immediate start.
IsDue(scheduledAt, t) == scheduledAt = NoTime \/ scheduledAt <= t

\* createCampaign after it stored the campaign and its leads: it calls
\* startCampaign, or scheduleCampaign (setTimeout) and returns.  The start it
\* leads to is the invocation s.
createCampaign(s) ==
    /\ starts[s].pc = "idle"
    /\ starts' = [starts EXCEPT ![s] =
            IF IsDue(campaign.scheduledAt, now)
            THEN StartEntered(@)
            ELSE [@ EXCEPT !.pc = "scheduled"]]
    /\ UNCHANGED <<webhooks, storeVars, engineVars, adapters, now, pause, ticks>>

\* The timeout of scheduleCampaign fires, not before scheduledAt, and calls
\* startCampaign.
scheduleCampaign(s) ==
    /\ starts[s].pc = "scheduled"
    /\ now >= campaign.scheduledAt
    /\ starts' = [starts EXCEPT ![s] = StartEntered(@)]
    /\ UNCHANGED <<webhooks, storeVars, engineVars, adapters, now, pause, ticks>>

\* getCampaign resolved: the status guard, then await storage.updateCampaign.
StartGotCampaign(s) ==
    /\ starts[s].pc = "getCampaign"
    /\ starts' = [starts EXCEPT ![s] =
            IF CanStartFrom(campaign.status)
            THEN [@ EXCEPT !.pc = "updateCampaign"]
            ELSE [@ EXCEPT !.pc = "done", !.result = "error"]]
    /\ UNCHANGED <<webhooks, storeVars, engineVars, adapters, now, pause, ticks>>

\* updateCampaign resolved: runningCampaigns.add, processCampaignLeads is
\* called (not awaited), the activity is logged and the call returns.
StartUpdated(s) ==
    /\ starts[s].pc = "updateCampaign"
    /\ campaign' = [campaign EXCEPT !.status = "running", !.startedAt = now]
    /\ runningCampaigns' = runningCampaigns \cup {CampaignId}
    /\ activity' = [activity EXCEPT !.campaign_started = @ + 1]
    /\ starts' = [starts EXCEPT ![s] = [@ EXCEPT !.pc = "done", !.result = "ok",
                                                  !.pcl = TRUE]]
    /\ UNCHANGED <<webhooks, settings, leads, calls, campaignIntervals, timers, adapters, now,
                   pause, ticks>>

\* processCampaignLeads after its getCampaign: setInterval and
\* campaignIntervals.set; the timer's id is the id of the start that made it.
processCampaignLeads(s) ==
    /\ starts[s].pcl
    /\ starts' = [starts EXCEPT ![s].pcl = FALSE]
    /\ IF settings = NoSettings
       THEN UNCHANGED <<timers, campaignIntervals>>
       ELSE /\ timers' = timers \cup {s}
            /\ campaignIntervals' = s
    /\ UNCHANGED <<webhooks, storeVars, runningCampaigns, adapters, now, pause, ticks>>

\* ---------------------------------------------------------- pauseCampaign
\* The status from which pauseCampaign proceeds: any.
CanPauseFrom(status) == TRUE

PauseCall ==
    /\ pause.pc = "idle"
    /\ pause.n < MaxPauses
    /\ pause' = [pc |-> IF CanPauseFrom(campaign.status) THEN "updateCampaign" ELSE "idle",
                 n |-> pause.n + 1]
    /\ UNCHANGED <<webhooks, storeVars, engineVars, adapters, now, starts, ticks>>

PauseUpdated ==
    /\ pause.pc = "updateCampaign"
    /\ campaign' = [campaign EXCEPT !.status = "paused"]
    /\ runningCampaigns' = runningCampaigns \ {CampaignId}
    /\ timers' = timers \ {campaignIntervals}
    /\ campaignIntervals' = NoTimer
    /\ activity' = [activity EXCEPT !.campaign_paused = @ + 1]
    /\ pause' = [pause EXCEPT !.pc = "idle"]
    /\ UNCHANGED <<webhooks, settings, leads, calls, adapters, now, starts, ticks>>

\* ------------------------------------------------- the tick callback
\* The callback, had it not tested the working hours.
TickEffect_NoGate(t, k) ==
    /\ t \in timers
    /\ ticks[k].pc = "idle"
    /\ \A j \in TickIds : j < k => ticks[j].pc # "idle"
    /\ IF CampaignId \notin runningCampaigns
       THEN /\ timers' = timers \ {t}
            /\ campaignIntervals' = NoTimer
            /\ UNCHANGED ticks
       ELSE /\ UNCHANGED <<timers, campaignIntervals>>
            /\ ticks' = [ticks EXCEPT ![k] = [@ EXCEPT !.pc = "getActive",
                                    !.todo = getCampaignLeadsByStatus("pending")]]
    /\ UNCHANGED <<storeVars, runningCampaigns, adapters, now, starts, pause>>

\* The timer t fires.  Not running: the callback clears its own timer and
\* deletes the campaign's entry of campaignIntervals.  Outside the working
\* hours: it returns.  Otherwise it reads the pending leads and awaits
\* getActiveCampaignCalls.
TickEffect(t, k) ==
    /\ t \in timers
    /\ ticks[k].pc = "idle"
    /\ \A j \in TickIds : j < k => ticks[j].pc # "idle"
    /\ IF CampaignId \notin runningCampaigns
       THEN /\ timers' = timers \ {t}
            /\ campaignIntervals' = NoTimer
            /\ UNCHANGED ticks
       ELSE /\ UNCHANGED <<timers, campaignIntervals>>
            /\ IF ~isWithinWorkingHours(settings.workingHours, now)
               THEN UNCHANGED ticks
               ELSE ticks' = [ticks EXCEPT ![k] = [@ EXCEPT !.pc = "getActive",
                                    !.todo = getCampaignLeadsByStatus("pending")]]
    /\ UNCHANGED <<storeVars, runningCampaigns, adapters, now, starts, pause>>

TickBegin(t, k) ==
    /\ TickEffect(t, k)
    /\ UNCHANGED webhooks

\* The tick callback, with the history kept that a tick fired outside the
\* working hours ("gated") and that it changed a lead or a call or went on to
\* its reads ("gatedDispatch").
ObservedTick(t, k) ==
    /\ TickEffect(t, k)
    /\ webhooks' = webhooks \cup
            (IF isWithinWorkingHours(settings.workingHours, now) THEN {}
             ELSE IF leads' = leads /\ calls' = calls /\ ticks' = ticks
                  THEN {<<0, "gated">>}
             ELSE {<<0, "gated">>, <<0, "gatedDispatch">>})

\* availableSlots and leadsToProcess
LeadsToProcess(pendingLeads, activeCount) ==
    Slice(pendingLeads, settings.maxConcurrentCalls - activeCount)

AfterLead(t, rest) ==
    [t EXCEPT !.pc = IF rest = <<>> THEN "getAll" ELSE "loop", !.todo = rest,
              !.cur = NoLead, !.curAttempts = 0]

\* processLead: retry budget used up
RetryExhausted(lead) == lead.callAttempts >= settings.retryAttempts

\* processLead: the retry delay has not passed
NotReadyYet(lead) ==
    /\ lead.lastCallAt # NoTime
    /\ now - lead.lastCallAt < settings.retryDelay

\* The leads of pendingLeads that pass both tests of processLead.
EligibleLeads(pendingLeads) ==
    SelectSeq(pendingLeads, LAMBDA lead : ~RetryExhausted(lead) /\ ~NotReadyYet(lead))

\* The selection the design document asks of a tick: of the eligible leads,
\* in creation order, as many as the free capacity allows.
DueLeads(pendingLeads, activeCount) ==
    LET E == EligibleLeads(pendingLeads)
        capacity == settings.maxConcurrentCalls - activeCount
        ids == [j \in 1..Len(E) |-> E[j].id]
    IN  SubSeq(ids, 1, IF capacity < 0 THEN 0
                       ELSE IF capacity > Len(E) THEN Len(E) ELSE capacity)

\* getActiveCampaignCalls resolved; the for loop starts.
TickGotActive(k) ==
    /\ ticks[k].pc = "getActive"
    /\ LET activeCount == Cardinality(getActiveCampaignCalls)
       IN  ticks' = [ticks EXCEPT ![k] =
                AfterLead([@ EXCEPT !.due = DueLeads(ticks[k].todo, activeCount),
                                    !.availableSlots =
                                        settings.maxConcurrentCalls - activeCount],
                          LeadsToProcess(ticks[k].todo, activeCount))]
    /\ UNCHANGED <<webhooks, storeVars, engineVars, adapters, now, starts, pause>>

\* processLead for the next lead of the loop, up to the store write it awaits:
\* the lead is failed for its attempts, or skipped for the retry delay, or
\* makeCall throws (provider not initialized) and the lead is failed, or
\* makeCall creates the Call record.
processLead(k) ==
    /\ ticks[k].pc = "loop"
    /\ LET lead == Head(ticks[k].todo)
           rest == Tail(ticks[k].todo)
       IN  IF RetryExhausted(lead)
           THEN /\ leads' = [leads EXCEPT ![lead.id].status = "failed"]
                /\ ticks' = [ticks EXCEPT ![k] = AfterLead(@, rest)]
                /\ UNCHANGED calls
           ELSE IF NotReadyYet(lead)
           THEN /\ ticks' = [ticks EXCEPT ![k] = AfterLead(@, rest)]
                /\ UNCHANGED <<leads, calls>>
           ELSE IF settings.voipProvider \notin adapters
           THEN /\ leads' = [leads EXCEPT ![lead.id].status = "failed",
                                          ![lead.id].callAttempts = lead.callAttempts + 1]
                /\ ticks' = [ticks EXCEPT ![k] =
                        AfterLead([@ EXCEPT !.dialed = Append(@, lead.id)], rest)]
                /\ UNCHANGED calls
           ELSE /\ Len(calls) < MaxCalls
                /\ calls' = Append(calls,
                        [status |-> "queued",
                         metadata |-> makeCallMetadata(settings.voipProvider, lead.id)])
                /\ ticks' = [ticks EXCEPT ![k] = [@ EXCEPT !.pc = "placed", !.todo = rest,
                                !.cur = lead.id, !.curAttempts = lead.callAttempts,
                                !.dialed = Append(@, lead.id)]]
                /\ UNCHANGED leads
    /\ UNCHANGED <<webhooks, settings, campaign, activity, engineVars, adapters, now, starts, pause>>

\* processLead after makeCall returned: the lead's attempt is recorded from
\* the snapshot the tick read.
LeadUpdated(k) ==
    /\ ticks[k].pc = "placed"
    /\ leads' = [leads EXCEPT ![ticks[k].cur].callAttempts = ticks[k].curAttempts + 1,
                              ![ticks[k].cur].lastCallAt = now]
    /\ ticks' = [ticks EXCEPT ![k] = AfterLead(@, ticks[k].todo)]
    /\ UNCHANGED <<webhooks, settings, campaign, calls, activity, engineVars, adapters, now,
                   starts, pause>>

CompletedLeads == {i \in Leads : IsTerminalLead(leads[i])}
ContactedLeads == {i \in Leads : leads[i].status = "contacted"}

\* The completion test of the tick.
AllLeadsCompleted == Cardinality(CompletedLeads) = Cardinality(Leads)

\* getCampaignLeads resolved: complete the campaign or update the progress.
TickGotAllLeads(k) ==
    /\ ticks[k].pc = "getAll"
    /\ ticks' = [ticks EXCEPT ![k] =
            [@ EXCEPT !.pc = IF AllLeadsCompleted THEN "completeCampaign" ELSE "progress",
                      !.nDone = Cardinality(CompletedLeads),
                      !.nGood = Cardinality(ContactedLeads),
                      !.availableSlots = 0,
                      !.due = <<>>, !.dialed = <<>>]]
    /\ UNCHANGED <<webhooks, storeVars, engineVars, adapters, now, starts, pause>>

\* The progress update, had it added the tick's count to the stored one.
TickProgressUpdated_Accumulating(k) ==
    /\ ticks[k].pc = "progress"
    /\ campaign' = [campaign EXCEPT !.completedLeads = @ + ticks[k].nDone,
                                    !.successfulCalls = @ + ticks[k].nGood]
    /\ ticks' = [ticks EXCEPT ![k] = IdleTick]
    /\ UNCHANGED <<webhooks, settings, leads, calls, activity, engineVars, adapters, now,
                   starts, pause>>

\* updateCampaign(completedLeads, successfulCalls) resolved; the tick ends.
TickProgressUpdated(k) ==
    /\ ticks[k].pc = "progress"
    /\ campaign' = [campaign EXCEPT !.completedLeads = ticks[k].nDone,
                                    !.successfulCalls = ticks[k].nGood]
    /\ ticks' = [ticks EXCEPT ![k] = IdleTick]
    /\ UNCHANGED <<webhooks, settings, leads, calls, activity, engineVars, adapters, now,
                   starts, pause>>

\* completeCampaign, called by the tick: the status is written, the campaign
\* leaves runningCampaigns, the registered timer is cleared and the activity
\* is logged.
completeCampaign(k) ==
    /\ ticks[k].pc = "completeCampaign"
    /\ campaign' = [campaign EXCEPT !.status = "completed", !.completedAt = now]
    /\ runningCampaigns' = runningCampaigns \ {CampaignId}
    /\ timers' = timers \ {campaignIntervals}
    /\ campaignIntervals' = NoTimer
    /\ activity' = [activity EXCEPT !.campaign_completed = @ + 1]
    /\ ticks' = [ticks EXCEPT ![k] = IdleTick]
    /\ UNCHANGED <<webhooks, settings, leads, calls, adapters, now, starts, pause>>

\* ------------------------------------------------- exceptions in a tick
\* An uncaught exception of the callback, had it ended the timer.
TickThrows_CancelsTimer(k) ==
    /\ ticks[k].pc \in {"getActive", "loop", "placed", "getAll", "progress",
                         "completeCampaign"}
    /\ ticks' = [ticks EXCEPT ![k] = IdleTick]
    /\ timers' = timers \ {campaignIntervals}
    /\ campaignIntervals' = NoTimer
    /\ webhooks' = webhooks \cup {<<0, "threw">>}
    /\ UNCHANGED <<storeVars, runningCampaigns, adapters, now, starts, pause>>

\* The store operation the tick awaits rejects and nothing the tick is in
\* catches it before the try/catch of the callback (a read of the callback,
\* the write of processLead's own catch, the progress update,
\* completeCampaign): the callback logs the error and returns; the interval
\* is left as it is.  The history keeps that a tick threw.
TickThrows(k) ==
    /\ ticks[k].pc \in {"getActive", "loop", "placed", "getAll", "progress",
                         "completeCampaign"}
    /\ ticks' = [ticks EXCEPT ![k] = IdleTick]
    /\ webhooks' = webhooks \cup {<<0, "threw">>}
    /\ UNCHANGED <<storeVars, engineVars, adapters, now, starts, pause>>

\* The write of the attempt after makeCall rejects: processLead's catch marks
\* the lead failed, and the loop goes on.
LeadUpdateThrows(k) ==
    /\ ticks[k].pc = "placed"
    /\ leads' = [leads EXCEPT ![ticks[k].cur].status = "failed",
                              ![ticks[k].cur].callAttempts = ticks[k].curAttempts + 1]
    /\ ticks' = [ticks EXCEPT ![k] = AfterLead(@, ticks[k].todo)]
    /\ UNCHANGED <<webhooks, settings, campaign, calls, activity, engineVars, adapters, now,
                   starts, pause>>

\* ------------------------------------------------------ getCampaignProgress
Percent == 100

\* Math.round(x / y * 100) for x >= 0, y > 0
RoundedPercent(x, y) == (2 * Percent * x + y) \div (2 * y)

\* The CampaignProgress computed from the campaign and its leads as stored.
getCampaignProgress ==
    LET completedLeads == Cardinality(CompletedLeads)
        successfulCalls == Cardinality(ContactedLeads)
    IN  [status |-> campaign.status,
         totalLeads |-> campaign.totalLeads,
         completedLeads |-> completedLeads,
         successfulCalls |-> successfulCalls,
         failedCalls |-> completedLeads - successfulCalls,
         progress |-> IF campaign.totalLeads > 0
                      THEN RoundedPercent(completedLeads, campaign.totalLeads)
                      ELSE 0]

\* ------------------------------------------------------ handleCallWebhook
\* The lead status the switch writes for an event status.
WebhookLeadStatus(status) ==
    CASE status = "answered" -> "answered"
      [] status \in {"busy", "no-answer"} -> "pending"
      [] status = "completed" -> "contacted"
      [] status = "failed" -> "failed"

\* The handler, had it counted an attempt of the lead the call was placed for
\* with every event.
LeadsAfterWebhook_CountingAttempt(ls, callId, status) ==
    LET leadId == calls[callId].metadata.settings.leadId
    IN  [ls EXCEPT ![leadId].status = WebhookLeadStatus(status),
                   ![leadId].callAttempts = @ + 1]

\* The lead records after the handler ran on the lead records ls: the
\* metadata.leadId guard and the switch.
LeadsAfterWebhook(ls, callId, status) ==
    LET leadId == calls[callId].metadata.leadId
    IN  IF leadId = NoLead
        THEN ls
        ELSE [ls EXCEPT ![leadId].status = WebhookLeadStatus(status)]

\* getCall, the guard and the switch; the Call record is not written.
WebhookEffect(callId, status) ==
    /\ callId \in 1..Len(calls)
    /\ leads' = LeadsAfterWebhook(leads, callId, status)
    /\ UNCHANGED <<settings, campaign, calls, activity, engineVars, adapters, now,
                   starts, pause, ticks>>

handleCallWebhook(callId, status) ==
    /\ WebhookEffect(callId, status)
    /\ UNCHANGED webhooks

\* The lead a call was placed for (the dispatcher's context).
LeadOfCall(callId) == calls[callId].metadata.settings.leadId

\* handleCallWebhook, with the history kept that the call received the event.
DeliveredWebhook(callId, status) ==
    /\ WebhookEffect(callId, status)
    /\ webhooks' = webhooks \cup {<<callId, "delivered">>}

\* handleCallWebhook, with the history kept that an event arrived for a call
\* whose lead was already contacted or failed ("late"), and that it changed a
\* lead or a call ("overwrote").
LateWebhook(callId, status) ==
    /\ WebhookEffect(callId, status)
    /\ webhooks' = webhooks \cup
            (IF ~IsTerminalLead(leads[LeadOfCall(callId)]) THEN {}
             ELSE IF leads' = leads /\ calls' = calls THEN {<<0, "late">>}
             ELSE {<<0, "late">>, <<0, "overwrote">>})

\* handleCallWebhook, with the history kept that an event was handled
\* ("handled") and that handling the same event once more would change a
\* lead ("repeatDiffers").
ObservedWebhook(callId, status) ==
    /\ WebhookEffect(callId, status)
    /\ webhooks' = webhooks \cup
            (IF LeadsAfterWebhook(leads', callId, status) = leads'
             THEN {<<0, "handled">>}
             ELSE {<<0, "handled">>, <<0, "repeatDiffers">>})

\* handleCallWebhook, with the history kept that an event was handled for a
\* call of a lead while a tick held a snapshot of that lead that it had not
\* processed yet ("inWindow").
RacedWebhook(callId, status) ==
    /\ WebhookEffect(callId, status)
    /\ webhooks' = webhooks \cup
            (IF \E k \in TickIds :
                    /\ ticks[k].pc \in {"getActive", "loop"}
                    /\ \E i \in 1..Len(ticks[k].todo) :
                            ticks[k].todo[i].id = LeadOfCall(callId)
             THEN {<<0, "inWindow">>}
             ELSE {})

\* POST /api/calls/:callId/end
EndCall(callId) ==
    /\ callId \in 1..Len(calls)
    /\ calls[callId].status # "completed"
    /\ calls' = [calls EXCEPT ![callId].status = "completed"]
    /\ UNCHANGED <<webhooks, settings, campaign, leads, activity, engineVars, adapters, now,
                   starts, pause, ticks>>

Next ==
    \/ \E p \in ProviderInputs : initializeProvider(p)
    \/ \E s \in StartIds : StartCall(s)
    \/ \E s \in StartIds : StartGotCampaign(s)
    \/ \E s \in StartIds : StartUpdated(s)
    \/ \E s \in StartIds : processCampaignLeads(s)
    \/ PauseCall
    \/ PauseUpdated
    \/ \E t \in StartIds, k \in TickIds : TickBegin(t, k)
    \/ \E k \in TickIds : TickGotActive(k)
    \/ \E k \in TickIds : processLead(k)
    \/ \E k \in TickIds : LeadUpdated(k)
    \/ \E k \in TickIds : TickGotAllLeads(k)
    \/ \E k \in TickIds : TickProgressUpdated(k)
    \/ \E k \in TickIds : completeCampaign(k)
    \/ \E c \in 1..MaxCalls, st \in WebhookStatuses : handleCallWebhook(c, st)
    \/ \E c \in 1..MaxCalls : EndCall(c)

Spec == Init /\ [][Next]_vars

\* The same program, with the history of the handled webhooks kept.
NextRecorded ==
    \/ \E p \in ProviderInputs : initializeProvider(p)
    \/ \E s \in StartIds : StartCall(s)
    \/ \E s \in StartIds : StartGotCampaign(s)
    \/ \E s \in StartIds : StartUpdated(s)
    \/ \E s \in StartIds : processCampaignLeads(s)
    \/ PauseCall
    \/ PauseUpdated
    \/ \E t \in StartIds, k \in TickIds : TickBegin(t, k)
    \/ \E k \in TickIds : TickGotActive(k)
    \/ \E k \in TickIds : processLead(k)
    \/ \E k \in TickIds : LeadUpdated(k)
    \/ \E k \in TickIds : TickGotAllLeads(k)
    \/ \E k \in TickIds : TickProgressUpdated(k)
    \/ \E k \in TickIds : completeCampaign(k)
    \/ \E c \in 1..MaxCalls, st \in WebhookStatuses : LateWebhook(c, st)
    \/ \E c \in 1..MaxCalls : EndCall(c)

SpecRecorded == Init /\ [][NextRecorded]_vars

\* ---------------------------------------------------------------------
\* A campaign of one lead that is started once, whose provider is
\* initialized, whose clock stays inside the working hours, that nobody pauses
\* and whose calls nobody ends by hand: ticks keep firing, every step of a
\* tick that can be taken is taken, and every placed call receives a
\* completed webhook.
InitLive == InitWith({MkSettings(1, 1, 0), MkSettings(2, 1, 0)}, 1, {"twilio"})

StartStep(s) ==
    \/ StartCall(s)
    \/ StartGotCampaign(s)
    \/ StartUpdated(s)
    \/ processCampaignLeads(s)

TickStep(k) ==
    \/ TickGotActive(k)
    \/ processLead(k)
    \/ LeadUpdated(k)
    \/ TickGotAllLeads(k)
    \/ TickProgressUpdated(k)
    \/ completeCampaign(k)

NextLive ==
    \/ StartStep(1)
    \/ \E t \in StartIds, k \in TickIds : TickBegin(t, k)
    \/ \E k \in TickIds : TickStep(k)
    \/ \E c \in 1..MaxCalls : DeliveredWebhook(c, "completed")

SpecLive ==
    /\ InitLive
    /\ [][NextLive]_vars
    /\ WF_vars(StartStep(1))
    /\ WF_vars(\E t \in StartIds, k \in TickIds : TickBegin(t, k))
    /\ \A k \in TickIds : WF_vars(TickStep(k))
    /\ \A c \in 1..MaxCalls : WF_vars(DeliveredWebhook(c, "completed"))

\* ---------------------------------------------------------------------
\* A campaign of one lead with two attempts and a retry delay of one minute,
\* started once, whose provider is initialized at some time or never, with
\* the clock running from Monday 16:59 past the end of the working hours.
InitTimed == InitWith({MkSettings(1, 2, 1)}, 1, {})

\* A minute passes.
AdvanceTime ==
    /\ now < InitialNow + MaxTime
    /\ now' = now + 1
    /\ UNCHANGED <<webhooks, storeVars, engineVars, adapters, starts, pause, ticks>>

NextTimed ==
    \/ \E p \in ProviderInputs : initializeProvider(p)
    \/ StartStep(1)
    \/ \E t \in StartIds, k \in TickIds : ObservedTick(t, k)
    \/ \E k \in TickIds : TickStep(k)
    \/ \E c \in 1..MaxCalls, st \in WebhookStatuses : ObservedWebhook(c, st)
    \/ \E c \in 1..MaxCalls : EndCall(c)
    \/ AdvanceTime

SpecTimed == InitTimed /\ [][NextTimed]_vars

\* ---------------------------------------------------------------------
\* The working-hours gate at the minutes around the start and the end of the
\* window, on every day of the week: a campaign of one lead is started, its
\* ticks fire and its calls are ended; the clock stands still.
HoursInputs ==
    {d * MinutesPerDay + h * MinutesPerHour + m :
        d \in 0..(DaysPerWeek - 1), h \in {8, 9, 16, 17}, m \in {0, 1, 59}}

InitHours == InitAt({DefaultSettings}, 1, {"twilio"}, HoursInputs, {NoTime})

NextHours ==
    \/ StartStep(1)
    \/ \E t \in StartIds, k \in TickIds : ObservedTick(t, k)
    \/ \E k \in TickIds : TickStep(k)
    \/ \E c \in 1..MaxCalls : EndCall(c)

SpecHours == InitHours /\ [][NextHours]_vars

\* ---------------------------------------------------------------------
\* A campaign of three leads, one call at a time, with no attempt or one
\* attempt per lead, started once, whose provider is initialized and whose
\* placed calls all receive a completed webhook.
InitThreeLeads == InitWith({MkSettings(1, 0, 0), MkSettings(1, 1, 0)}, 3, {"twilio"})

SpecThreeLeads == InitThreeLeads /\ [][NextLive]_vars

\* ---------------------------------------------------------------------
\* createCampaign of a campaign of one lead, with no scheduledAt or with a
\* scheduledAt one minute ahead; nobody else starts the campaign.
InitCreate ==
    InitAt({DefaultSettings}, 1, {"twilio"}, {InitialNow}, {NoTime, InitialNow + 1})

NextCreate ==
    \/ createCampaign(1)
    \/ scheduleCampaign(1)
    \/ StartGotCampaign(1)
    \/ StartUpdated(1)
    \/ processCampaignLeads(1)
    \/ \E t \in StartIds, k \in TickIds : TickBegin(t, k)
    \/ \E k \in TickIds : TickStep(k)
    \/ \E c \in 1..MaxCalls : EndCall(c)
    \/ AdvanceTime

SpecCreate == InitCreate /\ [][NextCreate]_vars

\* ---------------------------------------------------------------------
\* A campaign of two leads, two calls at a time, started once, whose provider
\* is initialized at some time or never and whose store operations may
\* reject.
InitFaults == InitWith({MkSettings(2, 1, 0)}, 2, {})

NextFaults ==
    \/ \E p \in ProviderInputs : initializeProvider(p)
    \/ StartStep(1)
    \/ \E t \in StartIds, k \in TickIds : TickBegin(t, k)
    \/ \E k \in TickIds : TickStep(k)
    \/ \E k \in TickIds : TickThrows(k)
    \/ \E k \in TickIds : LeadUpdateThrows(k)

SpecFaults == InitFaults /\ [][NextFaults]_vars

\* ---------------------------------------------------------------------
\* A campaign of one lead with one attempt, started once, whose provider is
\* initialized, whose calls receive webhooks of every status at any time and
\* are ended at any time.
InitRace == InitWith({DefaultSettings}, 1, {"twilio"})

NextRace ==
    \/ StartStep(1)
    \/ \E t \in StartIds, k \in TickIds : TickBegin(t, k)
    \/ \E k \in TickIds : TickStep(k)
    \/ \E c \in 1..MaxCalls, st \in WebhookStatuses : RacedWebhook(c, st)
    \/ \E c \in 1..MaxCalls : EndCall(c)

SpecRace == InitRace /\ [][NextRace]_vars

\* ---------------------------------------------------------------------
\* The program for a campaign of one lead that is stored with settings or
\* without.
InitAnySettings == InitWith({NoSettings, DefaultSettings}, 1, {})

SpecAnySettings == InitAnySettings /\ [][Next]_vars

\* =====================================================================
\* The claims
\* =====================================================================
ActiveCallsOfLead(l) == {c \in getActiveCampaignCalls : LeadOfCall(c) = l}
TicksInProgress == {k \in TickIds : ticks[k].pc # "idle"}

\* C1: in every reachable state the number of the campaign's queued or active
\* calls is at most settings.maxConcurrentCalls.
C1_ConcurrencyBound ==
    Cardinality(getActiveCampaignCalls) <= settings.maxConcurrentCalls

\* C2: a started campaign whose ticks keep firing inside the working hours,
\* whose provider is initialized and whose calls all receive a terminal
\* webhook eventually reaches the status completed.
C2_EventualTermination ==
    (campaign.status = "running") ~> (campaign.status = "completed")

\* C3: the campaign is completed at most once (one campaign_completed
\* activity record), and only with every lead contacted or failed.
C3_CompletedOnce ==
    /\ activity.campaign_completed <= 1
    /\ campaign.status = "completed" => AllLeadsCompleted

\* C4: the campaign status only moves forward along
\* draft -> scheduled -> running <-> paused -> completed, and completed is
\* terminal.
StatusRank(st) ==
    CASE st = "draft" -> 0
      [] st = "scheduled" -> 1
      [] st \in {"running", "paused"} -> 2
      [] st = "completed" -> 3

C4_StatusForwardOnly ==
    [][/\ StatusRank(campaign'.status) >= StatusRank(campaign.status)
       /\ campaign.status = "completed" => campaign'.status = "completed"]_vars

C6_OneTimer == Cardinality(timers) <= 1

\* C7: two tick callbacks of the campaign are never in progress at once.
C7_SingleFlight == Cardinality(TicksInProgress) <= 1

\* C8: no lead has two calls that are queued or active.
C8_NoDoubleClaim == \A l \in Leads : Cardinality(ActiveCallsOfLead(l)) <= 1

\* C9: startCampaign called on a paused campaign (one that was started and
\* then paused) succeeds.
C9_ResumeFromPaused ==
    \A s \in StartIds :
        (/\ starts[s].atCall = "paused"
         /\ starts[s].pc = "done"
         /\ campaign.startedAt # NoTime
         /\ activity.campaign_completed = 0) => starts[s].result = "ok"

\* C10: startCampaign called on a running or completed campaign fails and
\* never gets to write: it stays before its updateCampaign, ends in an error,
\* and registers no tick loop.
C10_StartRejected ==
    \A s \in StartIds :
        starts[s].atCall \in {"running", "completed"} =>
            /\ starts[s].pc \in {"getCampaign", "done"}
            /\ starts[s].pc = "done" => starts[s].result = "error"
            /\ ~starts[s].pcl

\* C10, its case: a start called on a completed campaign has returned.
C10_Witness ==
    \E s \in StartIds :
        /\ starts[s].pc = "done"
        /\ starts[s].atCall = "completed"
        /\ starts[s].result = "error"

\* C11: the campaign status becomes paused only from running: pauseCampaign
\* called on a draft, scheduled or completed campaign leaves the status as it
\* was.
C11_PauseOnlyFromRunning ==
    [][(campaign'.status = "paused" /\ campaign.status # "paused")
            => campaign.status = "running"]_vars

\* C12: once a completed webhook was handled for a call placed by a tick, the
\* lead the call was placed for is contacted (or was failed before): the
\* handler finds the lead of the call and writes the status of the table.
C12_WebhookMapsLead ==
    \A c \in 1..Len(calls) :
        <<c, "delivered">> \in webhooks =>
            leads[LeadOfCall(c)].status \in {"contacted", "failed"}

\* C13: once a completed webhook was handled for a call, the Call record is
\* completed and no longer counts as an active call of the campaign.
C13_WebhookUpdatesCall ==
    \A c \in 1..Len(calls) :
        <<c, "delivered">> \in webhooks =>
            /\ calls[c].status = "completed"
            /\ c \notin getActiveCampaignCalls

\* C14: handling a webhook twice in a row with the same arguments leaves the
\* leads and the calls as handling it once does.
C14_WebhookIdempotent == <<0, "repeatDiffers">> \notin webhooks

\* C14, its case: a webhook was handled for a call that a tick placed for a
\* lead, and the lead is still pending.
C14_Witness ==
    /\ <<0, "handled">> \in webhooks
    /\ \E c \in 1..Len(calls) : leads[LeadOfCall(c)].status = "pending"

\* C15: a lead that failed at dispatch time is failed only with its attempts
\* used up (callAttempts >= retryAttempts).
C15_FailedOnlyWhenExhausted ==
    \A l \in Leads :
        leads[l].status = "failed" => leads[l].callAttempts >= settings.retryAttempts

\* C16: no lead has more attempts recorded, or more calls placed for it, than
\* retryAttempts.
C16_AttemptsBounded ==
    \A l \in Leads :
        /\ leads[l].callAttempts <= settings.retryAttempts
        /\ Cardinality({c \in 1..Len(calls) : LeadOfCall(c) = l}) <= settings.retryAttempts

\* C17: the stored completedLeads and the completedLeads that
\* getCampaignProgress reports are at most totalLeads.
C17_CompletedWithinTotal ==
    /\ campaign.completedLeads <= campaign.totalLeads
    /\ getCampaignProgress.completedLeads <= campaign.totalLeads

\* C17, its case: a tick has stored a progress with a completed lead, and all
\* leads are completed by now.
C17_Witness ==
    /\ campaign.completedLeads >= 1
    /\ getCampaignProgress.completedLeads = campaign.totalLeads

\* C18: a tick inside the working hours calls makeCall for exactly the first
\* min(capacity, |E|) leads of E, in creation order, E being the pending leads
\* it read that have attempts left and whose retry delay has passed.
C18_DialsTheDueLeads ==
    \A k \in TickIds : ticks[k].pc = "getAll" => ticks[k].dialed = ticks[k].due

\* C19: a tick places a call for a lead only if the lead's lastCallAt is
\* unset or at least retryDelay minutes ago.
C19_RetryDelayRespected ==
    [][\A k \in TickIds :
        (ticks[k].pc = "loop" /\ ticks'[k].pc = "placed") =>
            LET last == leads[ticks'[k].cur].lastCallAt
            IN  last = NoTime \/ now >= last + settings.retryDelay]_vars

\* C20: a tick that fires outside the working hours places no call, changes
\* no lead and does not go on to read the leads.
C20_NoDispatchOutsideHours == <<0, "gatedDispatch">> \notin webhooks

\* C20, its case: a tick of the running campaign fired outside the working
\* hours while a lead was pending.
C20_Witness ==
    /\ <<0, "gated">> \in webhooks
    /\ CampaignId \in runningCampaigns
    /\ \E l \in Leads : leads[l].status = "pending"

\* C21: the working-hours gate is the half-open window: a tick goes on to its
\* reads only on a day of daysOfWeek at a minute with start <= minute < end,
\* and a tick is turned away only outside that window.
HalfOpenAllowed(workingHours, t) ==
    LET minuteOfDay == t % MinutesPerDay
    IN  /\ (t \div MinutesPerDay) % DaysPerWeek \in workingHours.daysOfWeek
        /\ workingHours.start[1] * MinutesPerHour + workingHours.start[2] <= minuteOfDay
        /\ minuteOfDay < workingHours.end[1] * MinutesPerHour + workingHours.end[2]

C21_HalfOpenWindow ==
    /\ (\E k \in TickIds : ticks[k].pc = "getActive")
            => HalfOpenAllowed(settings.workingHours, now)
    /\ <<0, "gated">> \in webhooks => ~HalfOpenAllowed(settings.workingHours, now)

\* C22: with three leads, maxConcurrentCalls = 1 and retryAttempts = 0 the
\* campaign is completed only with its three leads contacted: three successful
\* calls are reported.
C22_ScenarioA ==
    (settings.retryAttempts = 0 /\ campaign.status = "completed") =>
        /\ ContactedLeads = Leads
        /\ getCampaignProgress.successfulCalls = 3

\* C23: once pauseCampaign has returned and the campaign is paused, no call
\* is placed for it any more, also not by a tick that was in progress when
\* pause was called.
C23_NoPlacementAfterPause ==
    [][(campaign.status = "paused" /\ pause.pc = "idle" /\ pause.n > 0)
            => Len(calls') = Len(calls)]_vars

\* C24: a startCampaign that succeeded found the campaign's provider
\* initialized (providers are never removed).
C24_StartNeedsProvider ==
    \A s \in StartIds :
        starts[s].result = "ok" => settings.voipProvider \in adapters

\* C25: after createCampaign returned the campaign is scheduled if its
\* scheduledAt is ahead, with no tick loop and no call before scheduledAt, and
\* otherwise it has been started, with startedAt set.
C25_CreateSetsStatus ==
    /\ starts[1].pc = "scheduled" =>
            /\ campaign.status = "scheduled"
            /\ timers = {}
            /\ calls = <<>>
    /\ (campaign.scheduledAt # NoTime /\ now < campaign.scheduledAt) =>
            /\ timers = {}
            /\ calls = <<>>
    /\ (campaign.scheduledAt = NoTime /\ starts[1].pc = "done") =>
            /\ campaign.status \in {"running", "completed"}
            /\ campaign.startedAt # NoTime

\* C26: a tick that fails to place the call of a lead goes on with the next
\* lead it selected, and while the campaign is running its timer stays live
\* whatever a tick threw.
C26_FailuresIsolated ==
    /\ [](((CampaignId \in runningCampaigns) /\ starts[1].pc = "done" /\ ~starts[1].pcl)
            => campaignIntervals \in timers)
    /\ [][\A k \in TickIds :
            (/\ ticks[k].pc = "loop"
             /\ ticks'[k] # ticks[k]
             /\ ~RetryExhausted(Head(ticks[k].todo))
             /\ leads'[Head(ticks[k].todo).id] # leads[Head(ticks[k].todo).id]
             /\ leads'[Head(ticks[k].todo).id].status = "failed")
            => /\ ticks'[k].todo = Tail(ticks[k].todo)
               /\ ticks'[k].pc = IF Tail(ticks[k].todo) = <<>> THEN "getAll" ELSE "loop"]_vars

\* C26, its case: a tick failed to place the call of the first lead and went
\* on to the second, a tick threw, and the campaign is running with its
\* timer live.
C26_Witness ==
    /\ <<0, "threw">> \in webhooks
    /\ CampaignId \in runningCampaigns
    /\ campaignIntervals \in timers
    /\ \A l \in Leads : leads[l].status = "failed" /\ leads[l].callAttempts = 1
    /\ calls = <<>>

C28_CompletedCountersFinal ==
    campaign.status = "completed" =>
        /\ campaign.completedAt # NoTime
        /\ campaign.completedLeads = campaign.totalLeads
        /\ campaign.successfulCalls = Cardinality(ContactedLeads)

\* C29: a tick that computed availableSlots <= 0 (as many active calls as
\* maxConcurrentCalls, or more) places no call and changes no lead in its
\* loop, however many leads are pending.
C29_NoCapacityNoEffect ==
    [][\A k \in TickIds :
        (/\ ticks[k].pc \in {"loop", "placed"}
         /\ ticks[k].availableSlots <= 0
         /\ ticks'[k] # ticks[k])
        => leads' = leads /\ calls' = calls]_vars

\* C30: with no engine operation in progress, a running campaign is in
\* runningCampaigns and has exactly one timer, the registered one, and a
\* campaign that is not running has no timer.
Quiescent ==
    /\ \A s \in StartIds : starts[s].pc \in {"idle", "done"} /\ ~starts[s].pcl
    /\ pause.pc = "idle"
    /\ \A k \in TickIds : ticks[k].pc = "idle"

C30_TimerMatchesStatus ==
    Quiescent =>
        IF campaign.status = "running"
        THEN /\ CampaignId \in runningCampaigns
             /\ timers = {campaignIntervals}
             /\ campaignIntervals # NoTimer
        ELSE timers = {} /\ campaignIntervals = NoTimer
====
